---- MODULE Spec2Model ----
(***************************************************************************)
(* State machine of pymyq's API client (src/pymyq/api.py): the request     *)
(* engine (lock, retry loop, backoff, 401 handling), authenticate and      *)
(* update_device_info, run by several concurrent callers on one asyncio    *)
(* event loop.  One action is one run of a coroutine between two awaits.   *)
(***************************************************************************)
EXTENDS Integers, Sequences, FiniteSets, TLC

\* ---------------------------------------------------------------- bounds
NumCallers == 2      \* concurrent callers (asyncio tasks) of one client
MaxAccounts == 1     \* accounts listed by the Accounts endpoint
MaxItems == 1        \* device payloads in one device-list response

\* ------------------------------------------------------ program constants
DEFAULT_REQUEST_RETRIES == 5
BackoffCap == 5
NON_COVER_DEVICE_FAMILIES == "gateway"

\* ------------------------------------------------------------ value sets
Callers == 1..NumCallers
NoCaller == 0
None == "None"
NoHeader == "NoHeader"          \* headers without a SecurityToken entry
Tokens == {"t1", "t2"}
Serials == {"s1", "s2"}
Families == {NON_COVER_DEVICE_FAMILIES, "garagedoor"}
NoCredentials == [username |-> None, password |-> None]      \* {}
NoTimestamp == "unset"          \* self._last_state_update = None
NoDevices == [s \in {} |-> None]     \* self.devices = {}
NoRefresh == [recent |-> FALSE, fetched |-> "none", by |-> NoCaller]
Payloads == [serial_number : Serials \cup {None}, device_family : Families]

Min(a, b) == IF a < b THEN a ELSE b

RECURSIVE SeqsUpTo(_, _)
SeqsUpTo(S, n) ==
  IF n = 0 THEN {<<>>}
  ELSE LET shorter == SeqsUpTo(S, n - 1)
       IN shorter \cup {Append(s, x) : s \in {t \in shorter : Len(t) = n - 1}, x \in S}

DeviceLists == SeqsUpTo(Payloads, MaxItems)
\* the device lists of a service that knows one device and one payload lacking
\* a serial number
FewDeviceLists == SeqsUpTo({d \in Payloads : d.device_family = "garagedoor"
                                            /\ d.serial_number \in {"s1", None}}, MaxItems)

\* Transport outcomes of one attempt (aiohttp):
\*   ok          2xx with a JSON object body
\*   err         ClientError other than status 401, body a JSON object or no
\*               response at all (data stays a dict)
\*   err401      ClientResponseError with status 401
\*   errEmpty    non-2xx, non-401 status with an empty body (resp.json() is None)
\*   undecodable body that is not JSON (resp.json() raises a non-ClientError)
Outcomes == {"ok", "err", "err401", "errEmpty", "undecodable"}

VARIABLES
  account_info,       \* self._account_info: "empty" ({}) or "account" (has Account.Id)
  credentials,        \* self._credentials
  last_state_update,  \* self._last_state_update relative to utcnow(): NoTimestamp,
                      \* "recent" (less than DEFAULT_STATE_UPDATE_INTERVAL ago)
                      \* or "old" (at least the interval ago)
  lock,               \* self._lock: [owner, waiters]
  security_token,     \* self._security_token
  devices,            \* self.devices: serial -> [device_json, entity]
  top,                \* the public coroutine each caller is running
  pc,                 \* where the caller's coroutine is suspended
  req,                \* frame of the caller's current request() invocation
  error,              \* exception the caller's last call raised
  upd,                \* frame of update_device_info: accounts left, devices list
  prev_update,        \* the update_device_info invocation that last started its
                      \* fetches: whether it started less than the interval
                      \* ago, what it fetched once it has returned, its caller
  follows,            \* what the prev_update was when the caller's running
                      \* update_device_info invocation started
  reported            \* serial_number values (None for a payload without one)
                      \* of the device list merged last

vars == <<account_info, credentials, last_state_update, lock, security_token,
          devices, top, pc, req, error, upd,
          prev_update, follows, reported>>

session == <<account_info, credentials, last_state_update, security_token, devices>>
history == <<prev_update, follows, reported>>

IdleReq == [endpoint |-> "none", login_request |-> FALSE, token |-> NoHeader,
            attempt |-> 0, wait_for |-> 0, last |-> "none"]
IdleUpd == [todo |-> 0, devices |-> <<>>]

Init ==
  /\ account_info = "empty"
  /\ credentials = NoCredentials
  /\ last_state_update = NoTimestamp
  /\ lock = [owner |-> NoCaller, waiters |-> <<>>]
  /\ security_token = None
  /\ devices = NoDevices
  /\ top = [p \in Callers |-> "none"]
  /\ pc = [p \in Callers |-> "idle"]
  /\ req = [p \in Callers |-> IdleReq]
  /\ error = [p \in Callers |-> "none"]
  /\ upd = [p \in Callers |-> IdleUpd]
  /\ prev_update = NoRefresh
  /\ follows = [p \in Callers |-> "none"]
  /\ reported = {}

\* ------------------------------------------------------------------ lock
\* asyncio.Lock.release(): unlock; the first waiter is woken and takes the
\* lock when it next runs.
Release(l) == [l EXCEPT !.owner = NoCaller]

AcquireUnguarded(l, p) == [l EXCEPT !.owner = p]

\* asyncio.Lock.acquire() entered by "async with self._lock": taken at once
\* when unlocked and nobody waits, otherwise the caller queues.
Acquire(l, p) ==
  IF l.owner = NoCaller /\ l.waiters = <<>>
  THEN [l EXCEPT !.owner = p]
  ELSE [l EXCEPT !.waiters = Append(@, p)]

\* headers of request(): the token is read once, before the lock is awaited.
Headers(login_request, token) == IF login_request THEN NoHeader ELSE token

NewRequest(endpoint, login_request, token) ==
  [endpoint |-> endpoint, login_request |-> login_request,
   token |-> Headers(login_request, token),
   attempt |-> 0, wait_for |-> 0, last |-> "none"]

\* request() from its entry to its first await: headers, then the lock; with
\* the lock in hand attempt 0 is issued and the coroutine awaits the response.
StartRequest(p, l, endpoint, login_request, token) ==
  /\ lock' = Acquire(l, p)
  /\ req' = [req EXCEPT ![p] = NewRequest(endpoint, login_request, token)]
  /\ pc' = [pc EXCEPT ![p] = IF Acquire(l, p).owner = p THEN "inflight" ELSE "acquire"]
  /\ error' = [error EXCEPT ![p] = "none"]

\* a public call may start when the caller runs no coroutine
Free(p) == pc[p] \in {"idle", "returned", "raised"}

\* a call ends: by return (how = "returned") or by an exception leaving
\* request(), authenticate() and update_device_info(), none of which catches
\* it.  Of the request frame the last outcome stays visible, the kind of
\* request when the attempt failed, and the attempt index when the loop itself
\* raised (its two raise statements, the second through data.get).
Failures == Outcomes \ {"ok"}
LoopErrors == {"InvalidCredentialsError", "RequestError", "AttributeError"}
Finish(p, l, how, err, outcome) ==
  /\ lock' = l
  /\ pc' = [pc EXCEPT ![p] = how]
  /\ error' = [error EXCEPT ![p] = err]
  /\ req' = [req EXCEPT ![p] =
               IF outcome \in Failures /\ err \in LoopErrors
               THEN [IdleReq EXCEPT !.last = outcome,
                                    !.attempt = req[p].attempt,
                                    !.login_request = req[p].login_request]
               ELSE [IdleReq EXCEPT !.last = outcome,
                                    !.login_request = req[p].login_request
                                                      /\ outcome \in Failures]]
  /\ upd' = [upd EXCEPT ![p] = IdleUpd]
  /\ follows' = [follows EXCEPT ![p] = "none"]

\* ------------------------------------------------- update_device_info
\* the throttle test of update_device_info; an unset timestamp is first set
\* to call_dt - DEFAULT_STATE_UPDATE_INTERVAL, which is not within the
\* interval, and that assignment stays
TimestampAtCall == IF last_state_update = NoTimestamp THEN "old" ELSE last_state_update
Throttled == TimestampAtCall = "recent"

\* what this invocation follows: "empty" or "merged" when the invocation
\* before it started less than the window ago and has returned after its
\* network I/O, "none" otherwise
Following == IF prev_update.recent THEN prev_update.fetched ELSE "none"

\* update_device_info() from its entry to its first await (or its return)
EnterUpdate(p, l, outcome) ==
  /\ last_state_update' = TimestampAtCall
  /\ IF Throttled
     THEN /\ Finish(p, l, "returned", "none", outcome)
          /\ UNCHANGED prev_update
     ELSE /\ StartRequest(p, l, "Accounts", FALSE, security_token)
          /\ upd' = [upd EXCEPT ![p] = IdleUpd]
          /\ follows' = [follows EXCEPT ![p] = Following]
          /\ prev_update' = [recent |-> TRUE, fetched |-> "none", by |-> p]
  /\ UNCHANGED reported

SerialsOf(list) == {list[i].serial_number : i \in 1..Len(list)} \ {None}

MergeReplacing(reg, list) ==
  [s \in SerialsOf(list) |->
     [device_json |-> [serial_number |-> s, device_family |-> "garagedoor"], entity |-> 1]]

RECURSIVE MergeRecreating(_, _)
MergeRecreating(reg, list) ==
  IF list = <<>> THEN reg
  ELSE LET device_json == Head(list)
           serial_number == device_json.serial_number
           MyQDevice == [device_json |-> device_json,
                         entity |-> Cardinality(DOMAIN reg) + 1]
           merged ==
             IF serial_number = None THEN reg
             ELSE [s \in DOMAIN reg \cup {serial_number} |->
                     IF s = serial_number THEN MyQDevice ELSE reg[s]]
       IN MergeRecreating(merged, Tail(list))

RECURSIVE MergeUntilNoSerial(_, _)
MergeUntilNoSerial(reg, list) ==
  IF list = <<>> \/ Head(list).serial_number = None THEN reg
  ELSE LET device_json == Head(list)
           serial_number == device_json.serial_number
           MyQDevice == [device_json |-> device_json,
                         entity |-> Cardinality(DOMAIN reg) + 1]
           merged ==
             IF serial_number \in DOMAIN reg
             THEN [reg EXCEPT ![serial_number].device_json = device_json]
             ELSE [s \in DOMAIN reg \cup {serial_number} |->
                     IF s = serial_number THEN MyQDevice ELSE reg[s]]
       IN MergeUntilNoSerial(merged, Tail(list))

\* the merge loop of update_device_info over the fetched payloads
RECURSIVE Merge(_, _)
Merge(reg, list) ==
  IF list = <<>> THEN reg
  ELSE LET device_json == Head(list)
           serial_number == device_json.serial_number
           MyQDevice == [device_json |-> device_json,
                         entity |-> Cardinality(DOMAIN reg) + 1]
           merged ==
             IF serial_number = None THEN reg
             ELSE IF serial_number \in DOMAIN reg
                  THEN [reg EXCEPT ![serial_number].device_json = device_json]
                  ELSE [s \in DOMAIN reg \cup {serial_number} |->
                          IF s = serial_number THEN MyQDevice ELSE reg[s]]
       IN Merge(merged, Tail(list))

\* the tail of update_device_info once every fetch has returned
FinishUpdate(p, l, list) ==
  /\ devices' = IF list = <<>> THEN devices ELSE Merge(devices, list)
  /\ last_state_update' = IF list = <<>> THEN last_state_update ELSE "recent"
  /\ prev_update' = IF prev_update.by = p
                     THEN [prev_update EXCEPT
                             !.fetched = IF list = <<>> THEN "empty" ELSE "merged"]
                     ELSE prev_update
  /\ reported' = IF list = <<>> THEN reported
                  ELSE {list[i].serial_number : i \in 1..Len(list)}
  /\ Finish(p, l, "returned", "none", "ok")
  /\ UNCHANGED <<account_info, credentials, security_token, top>>

\* the fallback fetch for self.account_id; account_id raises KeyError when
\* the stored account info has no Account.Id
FetchOwnDevices(p, l) ==
  /\ IF account_info = "account"
     THEN /\ StartRequest(p, l, "OwnDevices", FALSE, security_token)
          /\ upd' = [upd EXCEPT ![p] = IdleUpd]
          /\ UNCHANGED follows
     ELSE Finish(p, l, "raised", "KeyError", "ok")
  /\ UNCHANGED <<session, top, prev_update, reported>>

\* ------------------------------------------------------ public calls
CallRequest(p) ==
  /\ Free(p)
  /\ top' = [top EXCEPT ![p] = "request"]
  /\ StartRequest(p, lock, "Other", FALSE, security_token)
  /\ UNCHANGED <<session, upd, history>>

AuthenticateStoringFirst(p) ==
  /\ Free(p)
  /\ top' = [top EXCEPT ![p] = "authenticate"]
  /\ credentials' = NoCredentials
  /\ pc' = [pc EXCEPT ![p] = "returned"]
  /\ req' = [req EXCEPT ![p] = IdleReq]
  /\ error' = [error EXCEPT ![p] = "none"]
  /\ UNCHANGED <<account_info, last_state_update, security_token, devices,
                 lock, upd, history>>

\* authenticate() with an absent username or password: returns at once
AuthenticateNoop(p) ==
  /\ Free(p)
  /\ top' = [top EXCEPT ![p] = "authenticate"]
  /\ pc' = [pc EXCEPT ![p] = "returned"]
  /\ req' = [req EXCEPT ![p] = IdleReq]
  /\ error' = [error EXCEPT ![p] = "none"]
  /\ UNCHANGED <<session, lock, upd, history>>

CallAuthenticate(p) ==
  /\ Free(p)
  /\ top' = [top EXCEPT ![p] = "authenticate"]
  /\ credentials' = [username |-> "user", password |-> "pass"]
  /\ StartRequest(p, lock, "Login", TRUE, security_token)
  /\ UNCHANGED <<account_info, last_state_update, security_token, devices, upd, history>>

CallUpdate(p) ==
  /\ Free(p)
  /\ top' = [top EXCEPT ![p] = "update_device_info"]
  /\ IF Throttled
     THEN /\ pc' = [pc EXCEPT ![p] = "returned"]
          /\ req' = [req EXCEPT ![p] = IdleReq]
          /\ error' = [error EXCEPT ![p] = "none"]
          /\ last_state_update' = TimestampAtCall
          /\ UNCHANGED <<lock, upd, history>>
     ELSE EnterUpdate(p, lock, "none")
  /\ UNCHANGED <<account_info, credentials, security_token, devices>>

\* a queued request() is woken with the lock free: it takes the lock and
\* issues attempt 0 with the headers built before it queued
AcquireLock(p) ==
  /\ pc[p] = "acquire"
  /\ lock.owner = NoCaller
  /\ lock.waiters # <<>> /\ Head(lock.waiters) = p
  /\ lock' = [owner |-> p, waiters |-> Tail(lock.waiters)]
  /\ pc' = [pc EXCEPT ![p] = "inflight"]
  /\ UNCHANGED <<session, top, req, error, upd, history>>


\* ------------------------------------------------- the retry loop
InFlight(p, endpoints) == pc[p] = "inflight" /\ req[p].endpoint \in endpoints
AnyEndpoint == {"Other", "Login", "My", "Accounts", "Devices", "OwnDevices"}

\* "if attempt == DEFAULT_REQUEST_RETRIES - 1"
IsLastAttempt(attempt) == attempt = DEFAULT_REQUEST_RETRIES - 1

wait_for_uncapped(attempt) == 2 ^ attempt

\* "wait_for = min(2 ** attempt, 5)", attempt being the one that just failed
wait_for(attempt) == Min(2 ^ attempt, BackoffCap)

KeepCredentials(c) == c

\* a 401 on a login request: "self._credentials = {}"
CredentialsAfterLogin401(c) == NoCredentials

\* resp.json() raises on a body that is not JSON: the exception is no
\* ClientError, so it leaves the loop and the lock at once
RespondUndecodable(p) ==
  /\ InFlight(p, AnyEndpoint)
  /\ Finish(p, Release(lock), "raised", "JSONDecodeError", "undecodable")
  /\ UNCHANGED <<session, top, prev_update, reported>>

Respond401Login(p) ==
  /\ InFlight(p, AnyEndpoint)
  /\ req[p].login_request
  /\ credentials' = CredentialsAfterLogin401(credentials)
  /\ Finish(p, Release(lock), "raised", "InvalidCredentialsError", "err401")
  /\ UNCHANGED <<account_info, last_state_update, security_token, devices,
                 top, prev_update, reported>>

Respond401Requeue(p) ==
  /\ InFlight(p, AnyEndpoint)
  /\ ~req[p].login_request
  /\ lock' = Acquire(Release(lock), p)
  /\ req' = [req EXCEPT ![p].last = "err401"]
  /\ pc' = [pc EXCEPT ![p] = IF Acquire(Release(lock), p).owner = p
                             THEN "inflight" ELSE "acquire"]
  /\ UNCHANGED <<session, top, error, upd, history>>

\* a 401 on any other request: the handler evaluates api.authenticate(...);
\* the module has no global named api (it is a local of login()), so the
\* lookup raises NameError, which "except RequestError" does not catch
Respond401(p) ==
  /\ InFlight(p, AnyEndpoint)
  /\ ~req[p].login_request
  /\ Finish(p, Release(lock), "raised", "NameError", "err401")
  /\ UNCHANGED <<session, top, prev_update, reported>>

\* the last attempt failed: RequestError built from data.get(...), which is
\* an AttributeError when the body was empty (data is None)
RespondFailLast(p) ==
  /\ InFlight(p, AnyEndpoint)
  /\ IsLastAttempt(req[p].attempt)
  /\ \E outcome \in {"err", "errEmpty"} :
       Finish(p, Release(lock), "raised",
              IF outcome = "err" THEN "RequestError" ELSE "AttributeError", outcome)
  /\ UNCHANGED <<session, top, prev_update, reported>>

\* an earlier attempt failed: sleep min(2 ** attempt, 5) with the lock held
RespondFailRetry(p) ==
  /\ InFlight(p, AnyEndpoint)
  /\ ~IsLastAttempt(req[p].attempt)
  /\ \E outcome \in {"err", "errEmpty"} :
       /\ req' = [req EXCEPT ![p].wait_for = wait_for(req[p].attempt)]
  /\ pc' = [pc EXCEPT ![p] = "sleep"]
  /\ UNCHANGED <<session, lock, top, error, upd, history>>

WakeUpSameAttempt(p) ==
  /\ pc[p] = "sleep"
  /\ req' = [req EXCEPT ![p].wait_for = 0]
  /\ pc' = [pc EXCEPT ![p] = "inflight"]
  /\ UNCHANGED <<session, lock, top, error, upd, history>>

\* asyncio.sleep is over: the next attempt is issued with the same headers
WakeUp(p) ==
  /\ pc[p] = "sleep"
  /\ req' = [req EXCEPT ![p].attempt = @ + 1]
  /\ pc' = [pc EXCEPT ![p] = "inflight"]
  /\ UNCHANGED <<session, lock, top, error, upd, history>>


\* ------------------------------------- a 2xx response: request() returns
\* request() called directly by the caller
OtherReturns(p) ==
  /\ InFlight(p, {"Other"})
  /\ Finish(p, Release(lock), "returned", "none", "ok")
  /\ UNCHANGED <<session, top, prev_update, reported>>

\* authenticate() after the Login request: the token is stored, absent or not
LoginReturns(p) ==
  /\ InFlight(p, {"Login"})
  /\ \E SecurityToken \in Tokens \cup {None} :
       /\ security_token' = SecurityToken
       /\ IF SecurityToken = None
          THEN Finish(p, Release(lock), "raised", "RequestError", "ok")
          ELSE /\ StartRequest(p, Release(lock), "My", FALSE, SecurityToken)
               /\ UNCHANGED <<upd, follows>>
  /\ UNCHANGED <<account_info, credentials, last_state_update, devices,
                 top, prev_update, reported>>

\* authenticate() after the My request: account info stored, then
\* update_device_info() up to its first await
MyReturns(p) ==
  /\ InFlight(p, {"My"})
  /\ account_info' = "account"
  /\ EnterUpdate(p, Release(lock), "ok")
  /\ UNCHANGED <<credentials, security_token, devices, top>>

\* update_device_info() after the Accounts request
AccountsReturnsUpTo(p, most) ==
  /\ InFlight(p, {"Accounts"})
  /\ \E Items \in 0..most :
       IF Items > 0
       THEN /\ StartRequest(p, Release(lock), "Devices", FALSE, security_token)
            /\ upd' = [upd EXCEPT ![p] = [todo |-> Items - 1, devices |-> <<>>]]
            /\ UNCHANGED <<session, top, history>>
       ELSE FetchOwnDevices(p, Release(lock))

AccountsReturns(p) == AccountsReturnsUpTo(p, MaxAccounts)

DevicesReturnsMergingEarly(p, lists) ==
  /\ InFlight(p, {"Devices"})
  /\ \E items \in lists :
       LET fetched == upd[p].devices \o items
       IN IF upd[p].todo > 0
          THEN /\ StartRequest(p, Release(lock), "Devices", FALSE, security_token)
               /\ upd' = [upd EXCEPT ![p] = [todo |-> @.todo - 1, devices |-> fetched]]
               /\ devices' = Merge(devices, items)
               /\ UNCHANGED <<account_info, credentials, last_state_update,
                              security_token, top, history>>
          ELSE IF fetched = <<>>
               THEN FetchOwnDevices(p, Release(lock))
               ELSE FinishUpdate(p, Release(lock), fetched)

\* update_device_info() after the device list of one account
DevicesReturns(p, lists) ==
  /\ InFlight(p, {"Devices"})
  /\ \E items \in lists :
       LET fetched == upd[p].devices \o items
       IN IF upd[p].todo > 0
          THEN /\ StartRequest(p, Release(lock), "Devices", FALSE, security_token)
               /\ upd' = [upd EXCEPT ![p] = [todo |-> @.todo - 1, devices |-> fetched]]
               /\ UNCHANGED <<session, top, history>>
          ELSE IF fetched = <<>>
               THEN FetchOwnDevices(p, Release(lock))
               ELSE FinishUpdate(p, Release(lock), fetched)

\* update_device_info() after the fallback device list
OwnDevicesReturns(p, lists) ==
  /\ InFlight(p, {"OwnDevices"})
  /\ \E items \in lists : FinishUpdate(p, Release(lock), items)

\* ------------------------------------------------------------- time
\* time passes: the oldest instant still within the interval leaves it.  An
\* invocation starts its fetches only when the recorded refresh is not recent,
\* so a recent refresh is always younger than the start in prev_update.
Expire ==
  /\ last_state_update = "recent" \/ prev_update.recent
  /\ last_state_update' = IF prev_update.recent THEN last_state_update ELSE "old"
  /\ prev_update' = NoRefresh
  /\ UNCHANGED <<account_info, credentials, security_token, devices, lock,
                 top, pc, req, error, upd, follows, reported>>

Next ==
  \/ \E p \in Callers : CallRequest(p)
  \/ \E p \in Callers : AuthenticateNoop(p)
  \/ \E p \in Callers : CallAuthenticate(p)
  \/ \E p \in Callers : CallUpdate(p)
  \/ \E p \in Callers : AcquireLock(p)
  \/ \E p \in Callers : RespondUndecodable(p)
  \/ \E p \in Callers : Respond401Login(p)
  \/ \E p \in Callers : Respond401(p)
  \/ \E p \in Callers : RespondFailLast(p)
  \/ \E p \in Callers : RespondFailRetry(p)
  \/ \E p \in Callers : WakeUp(p)
  \/ \E p \in Callers : OtherReturns(p)
  \/ \E p \in Callers : LoginReturns(p)
  \/ \E p \in Callers : MyReturns(p)
  \/ \E p \in Callers : AccountsReturns(p)
  \/ \E p \in Callers : DevicesReturns(p, FewDeviceLists)
  \/ \E p \in Callers : OwnDevicesReturns(p, FewDeviceLists)
  \/ Expire

Spec == Init /\ [][Next]_vars

\* One caller and a service that may report any payload of Payloads: the
\* merge loop runs between two awaits, so no other caller can interleave
\* with it, and the registry changes nowhere else.
NextRegistry ==
  \/ CallRequest(1)
  \/ AuthenticateNoop(1)
  \/ CallAuthenticate(1)
  \/ CallUpdate(1)
  \/ RespondUndecodable(1)
  \/ Respond401Login(1)
  \/ Respond401(1)
  \/ RespondFailLast(1)
  \/ RespondFailRetry(1)
  \/ WakeUp(1)
  \/ OtherReturns(1)
  \/ LoginReturns(1)
  \/ MyReturns(1)
  \/ AccountsReturns(1)
  \/ DevicesReturns(1, DeviceLists)
  \/ OwnDevicesReturns(1, DeviceLists)
  \/ Expire

SpecRegistry == Init /\ [][NextRegistry]_vars

TypeOK ==
  /\ account_info \in {"empty", "account"}
  /\ security_token \in Tokens \cup {None}
  /\ last_state_update \in {NoTimestamp, "old", "recent"}
  /\ DOMAIN devices \subseteq Serials
  /\ lock.owner \in Callers \cup {NoCaller}
  /\ \A p \in Callers : req[p].attempt \in 0..(DEFAULT_REQUEST_RETRIES - 1)


\* ------------------------------------------------ the merge and covers
\* device_family values the service may send: "gate" stands for the strings
\* that occur inside "gateway"
ServiceFamilies == Families \cup {"gate"}
ServicePayloads == [serial_number : Serials \cup {None}, device_family : ServiceFamilies]
MaxMerged == 2       \* payloads in the list a refresh has fetched
MergedLists == SeqsUpTo(ServicePayloads, MaxMerged)

\* the registries earlier refreshes can have left: every key is its entry's
\* serial number, entities are numbered in the order they were created
Registries ==
  {r \in UNION {[S -> [device_json : Payloads, entity : 1..Cardinality(Serials)]] :
                  S \in SUBSET Serials} :
     \A s \in DOMAIN r :
        /\ r[s].device_json.serial_number = s
        /\ r[s].entity <= Cardinality(DOMAIN r)
        /\ \A t \in DOMAIN r : r[t].entity = r[s].entity => t = s}

\* the characters of a device_family string
Chars(family) ==
  CASE family = "gateway" -> <<"g", "a", "t", "e", "w", "a", "y">>
    [] family = "garagedoor" -> <<"g", "a", "r", "a", "g", "e", "d", "o", "o", "r">>
    [] family = "gate" -> <<"g", "a", "t", "e">>

\* Python's "a in b" for two strings: a occurs in b
IsSubstring(a, b) ==
  \E i \in 0..(Len(b) - Len(a)) : SubSeq(b, i + 1, i + Len(a)) = a

\* the covers property: device_json["device_family"] not in
\* NON_COVER_DEVICE_FAMILIES, the latter being one string
covers ==
  [s \in {d \in DOMAIN devices :
            ~IsSubstring(Chars(devices[d].device_json.device_family),
                         Chars(NON_COVER_DEVICE_FAMILIES))} |-> devices[s]]

\* A refresh of caller 1 whose account-list fetch and all device-list fetches
\* but the last have returned: the payloads fetched so far are any list of
\* MergedLists, the registry any of Registries.
InitMerge ==
  /\ account_info = "account"
  /\ credentials = [username |-> "user", password |-> "pass"]
  /\ last_state_update = "old"
  /\ lock = [owner |-> 1, waiters |-> <<>>]
  /\ security_token = "t1"
  /\ devices \in Registries
  /\ top = [p \in Callers |-> IF p = 1 THEN "update_device_info" ELSE "none"]
  /\ pc = [p \in Callers |-> IF p = 1 THEN "inflight" ELSE "idle"]
  /\ req = [p \in Callers |-> IF p = 1 THEN NewRequest("Devices", FALSE, "t1") ELSE IdleReq]
  /\ error = [p \in Callers |-> "none"]
  /\ \E fetched \in MergedLists :
       upd = [p \in Callers |-> IF p = 1 THEN [todo |-> 0, devices |-> fetched] ELSE IdleUpd]
  /\ prev_update = [recent |-> TRUE, fetched |-> "none", by |-> 1]
  /\ follows = [p \in Callers |-> "none"]
  /\ reported = DOMAIN devices

\* the last device list has no items: the payloads fetched before are merged
\* (or, there being none, the fallback device list is fetched, without items)
NextMerge ==
  \/ DevicesReturns(1, {<<>>})
  \/ OwnDevicesReturns(1, {<<>>})

SpecMerge == InitMerge /\ [][NextMerge]_vars


\* One caller and a service that lists up to ManyAccounts accounts, so that a
\* refresh has fetched the device list of one account when the fetch for the
\* next one fails.
ManyAccounts == 2    \* accounts listed by the Accounts endpoint
NextRefresh ==
  \/ CallAuthenticate(1)
  \/ CallUpdate(1)
  \/ RespondUndecodable(1)
  \/ Respond401Login(1)
  \/ Respond401(1)
  \/ RespondFailLast(1)
  \/ RespondFailRetry(1)
  \/ WakeUp(1)
  \/ LoginReturns(1)
  \/ MyReturns(1)
  \/ AccountsReturnsUpTo(1, ManyAccounts)
  \/ DevicesReturns(1, FewDeviceLists)
  \/ OwnDevicesReturns(1, FewDeviceLists)
  \/ Expire

SpecRefresh == Init /\ [][NextRefresh]_vars


\* Two callers that call request and authenticate, under the scheduling the
\* event loop and an answering transport give: every attempt in flight is
\* answered, every sleep ends, and a waiter woken by release() gets to run.
NextLive ==
  \/ \E p \in Callers : CallRequest(p)
  \/ \E p \in Callers : CallAuthenticate(p)
  \/ \E p \in Callers : AcquireLock(p)
  \/ \E p \in Callers : RespondUndecodable(p)
  \/ \E p \in Callers : Respond401Login(p)
  \/ \E p \in Callers : Respond401(p)
  \/ \E p \in Callers : RespondFailLast(p)
  \/ \E p \in Callers : RespondFailRetry(p)
  \/ \E p \in Callers : WakeUp(p)
  \/ \E p \in Callers : OtherReturns(p)
  \/ \E p \in Callers : LoginReturns(p)
  \/ \E p \in Callers : MyReturns(p)
  \/ \E p \in Callers : AccountsReturns(p)
  \/ \E p \in Callers : DevicesReturns(p, FewDeviceLists)
  \/ \E p \in Callers : OwnDevicesReturns(p, FewDeviceLists)

\* the transport answers the attempt of caller p that is in flight
Responds(p) ==
  \/ RespondUndecodable(p)
  \/ Respond401Login(p)
  \/ Respond401(p)
  \/ RespondFailLast(p)
  \/ RespondFailRetry(p)
  \/ OtherReturns(p)
  \/ LoginReturns(p)
  \/ MyReturns(p)
  \/ AccountsReturns(p)
  \/ DevicesReturns(p, FewDeviceLists)
  \/ OwnDevicesReturns(p, FewDeviceLists)

Scheduling ==
  \A p \in Callers :
     /\ WF_vars(Responds(p))
     /\ WF_vars(WakeUp(p))
     /\ WF_vars(AcquireLock(p))

SpecLive == Init /\ [][NextLive]_vars /\ Scheduling


\* ================================================================ claims
InLoop(p) == pc[p] \in {"inflight", "sleep"}
\* the step in which caller p's pending attempt is answered with a 401
Answered401(p) == pc[p] = "inflight" /\ req'[p].last = "err401"

\* C1: at most one attempt is in flight against the transport at any time;
\* a caller holds the lock from its first attempt through every backoff wait,
\* and the lock has an owner only while that owner is inside its retry loop.
C1_Serialized ==
  /\ Cardinality({p \in Callers : pc[p] = "inflight"}) <= 1
  /\ \A p \in Callers : InLoop(p) <=> lock.owner = p

\* a caller sleeps between attempts with the lock while another one queues
C1_Witness ==
  \E p, q \in Callers :
     /\ pc[p] = "sleep" /\ req[p].attempt >= 1 /\ lock.owner = p
     /\ pc[q] = "acquire" /\ lock.waiters = <<q>>

\* C2: when a non-login attempt is answered 401 with credentials stored, the
\* Login request of the nested authenticate proceeds past the lock: it is in
\* flight when the handler next awaits.
C2_NestedLoginProceeds ==
  [][\A p \in Callers :
       (Answered401(p) /\ ~req[p].login_request /\ credentials # NoCredentials)
         => (pc'[p] = "inflight" /\ req'[p].endpoint = "Login")]_vars

\* C3: a 401 on a non-login attempt triggers one re-authentication that is
\* over before the call resumes: with credentials stored its Login request
\* has been started, without them (the no-op) the call is back in its own
\* loop, waiting for the next attempt or giving up with RequestError.
C3_OneReauthentication ==
  [][\A p \in Callers :
       (Answered401(p) /\ ~req[p].login_request)
         => IF credentials = NoCredentials
            THEN \/ pc'[p] = "sleep"
                 \/ pc'[p] = "raised" /\ error'[p] = "RequestError"
            ELSE req'[p].endpoint = "Login" /\ pc'[p] \in {"inflight", "acquire"}]_vars

\* C4: a non-login call that ends on a 401 of one of its attempts ends with
\* RequestError and no other kind of error.
C4_ReauthFailureIsRequestError ==
  \A p \in Callers :
     (pc[p] = "raised" /\ req[p].last = "err401" /\ ~req[p].login_request)
       => error[p] = "RequestError"

\* C5: every attempt of a non-login request that is in flight carries the
\* security token that is current in the session state.
C5_AttemptCarriesCurrentToken ==
  \A p \in Callers :
     (pc[p] = "inflight" /\ ~req[p].login_request) => req[p].token = security_token

\* C6: the step that answers an attempt of a login request with 401 empties
\* the stored credentials and ends the call with InvalidCredentialsError on
\* that very attempt, whatever its index: the rejected attempt is issued once
\* and no later attempt follows it.
C6_Login401IsFinal ==
  [][\A p \in Callers :
       (Answered401(p) /\ req[p].login_request)
         => /\ credentials' = NoCredentials
            /\ pc'[p] = "raised" /\ error'[p] = "InvalidCredentialsError"
            /\ req'[p].attempt = req[p].attempt]_vars

\* a login call rejected on a retried attempt
C6_Witness ==
  \E p \in Callers :
     /\ pc[p] = "raised" /\ error[p] = "InvalidCredentialsError"
     /\ req[p].login_request /\ req[p].attempt >= 1
     /\ credentials = NoCredentials

\* C7: a call issues at most 5 attempts, never waits after the 5th, returns
\* only after a 2xx answer, and a call whose 5th attempt failed with an error
\* status other than 401 (or with no response at all) has raised RequestError.
C7_FifthFailureIsRequestError ==
  \A p \in Callers :
     /\ req[p].attempt + 1 <= 5
     /\ pc[p] = "sleep" => req[p].attempt + 1 < 5
     /\ pc[p] = "returned" => req[p].last \in {"ok", "none"}
     /\ (pc[p] = "raised" /\ req[p].attempt = 4 /\ req[p].last \in {"err", "errEmpty"})
          => error[p] = "RequestError"

\* no wait before attempt 0, none after the last attempt
C8_NoOtherWait(p) ==
  /\ (pc[p] = "inflight" /\ req[p].attempt = 0) => req[p].wait_for = 0
  /\ pc[p] = "sleep" => req[p].attempt < 4

\* C8 as claimed: the wait before attempt k >= 1 is min(2^k, 5) seconds.
C8_WaitBeforeAttemptK ==
  \A p \in Callers :
     /\ C8_NoOtherWait(p)
     /\ (pc[p] = "inflight" /\ req[p].attempt >= 1)
          => req[p].wait_for = Min(2 ^ req[p].attempt, 5)

\* C8 amended: the wait before attempt k >= 1 is min(2^(k-1), 5) seconds,
\* that is 1, 2, 4 and 5 seconds before attempts 1 to 4.
C8_WaitAfterAttemptK ==
  \A p \in Callers :
     /\ C8_NoOtherWait(p)
     /\ (pc[p] = "inflight" /\ req[p].attempt >= 1)
          => req[p].wait_for = Min(2 ^ (req[p].attempt - 1), 5)
     /\ pc[p] = "sleep" => req[p].wait_for = Min(2 ^ req[p].attempt, 5)

\* the last attempt, issued after the capped wait
C8_Witness ==
  \E p \in Callers : pc[p] = "inflight" /\ req[p].attempt = 4 /\ req[p].wait_for = 5

\* C9: an update_device_info invocation that starts less than the interval
\* after the start of an invocation that has returned after its network I/O
\* issues no transport request, whatever that one fetched.
C9_SecondCallIsThrottled ==
  \A p \in Callers : follows[p] # "none" => pc[p] \notin {"acquire", "inflight", "sleep"}

\* C10: the registry is inclusion-only: no step removes a serial number, and
\* an entry changes only in the step that completes a refresh whose device
\* list reports it; an entry the service did not report keeps its payload.
C10_InclusionOnly ==
  [][\A s \in DOMAIN devices :
       /\ s \in DOMAIN devices'
       /\ devices'[s] # devices[s] => (last_state_update' = "recent" /\ s \in reported')]_vars

\* a registered device that the last merged device list did not report
C10_Witness == \E s \in DOMAIN devices : s \notin reported /\ reported # {}

\* the payload a merged list holds last for serial number s
LastPayload(list, s) ==
  list[CHOOSE i \in 1..Len(list) :
         /\ list[i].serial_number = s
         /\ \A j \in (i + 1)..Len(list) : list[j].serial_number # s]

\* the step in which caller p's refresh merges the payloads it has fetched
Merges(p) ==
  /\ pc[p] = "inflight" /\ req[p].endpoint = "Devices"
  /\ upd[p].todo = 0 /\ upd[p].devices # <<>>
  /\ pc'[p] # "inflight"

\* C11: merging a payload whose serial number is already a key replaces the
\* payload of the existing entity in place: the entity is the same one, it
\* holds the payload fetched (last) for its serial number, a list reporting
\* only registered serial numbers leaves the set of keys as it was, and every
\* entry's serial number equals its key.
C11_ReplacedInPlace ==
  [][\A p \in Callers :
       Merges(p) =>
         /\ \A s \in DOMAIN devices \cap SerialsOf(upd[p].devices) :
               /\ s \in DOMAIN devices'
               /\ devices'[s].entity = devices[s].entity
               /\ devices'[s].device_json = LastPayload(upd[p].devices, s)
         /\ SerialsOf(upd[p].devices) \subseteq DOMAIN devices
              => DOMAIN devices' = DOMAIN devices
         /\ \A s \in DOMAIN devices' : devices'[s].device_json.serial_number = s]_vars

\* a refresh has returned after merging a list that reported one device,
\* which was registered before the other registered device
C11_Witness ==
  \E s \in DOMAIN devices :
     /\ pc[1] = "returned" /\ reported = {s}
     /\ devices[s].entity = 1 /\ Cardinality(DOMAIN devices) = 2
     /\ devices[s].device_json.device_family = "gate"

\* C12: a payload without a serial number is skipped: the refresh returns
\* without raising, every payload of the list that has a serial number is in
\* the registry afterwards (the last one fetched for that serial number), no
\* entry is made for the payload skipped, and the timestamp is recorded.
C12_SkipsPayloadWithoutSerial ==
  [][\A p \in Callers :
       (Merges(p) /\ \E i \in 1..Len(upd[p].devices) : upd[p].devices[i].serial_number = None)
         => /\ pc'[p] = "returned" /\ error'[p] = "none"
            /\ \A s \in SerialsOf(upd[p].devices) :
                  /\ s \in DOMAIN devices'
                  /\ devices'[s].device_json = LastPayload(upd[p].devices, s)
            /\ DOMAIN devices' = DOMAIN devices \cup SerialsOf(upd[p].devices)
            /\ last_state_update' = "recent"]_vars

\* a refresh has returned after merging a list with a payload without serial
\* number and a payload of a device not registered before
C12_Witness ==
  \E s \in Serials :
     /\ pc[1] = "returned" /\ error[1] = "none" /\ reported = {None, s}
     /\ s \in DOMAIN devices /\ devices[s].entity = Cardinality(DOMAIN devices)
     /\ devices[s].device_json.device_family = "gate"
     /\ last_state_update = "recent"

\* C13: the covers view holds exactly the entries whose device family is not
\* equal to "gateway", each with the same key and entity.
C13_CoversExcludeGatewayOnly ==
  covers = [s \in {d \in DOMAIN devices :
                     devices[d].device_json.device_family # "gateway"} |-> devices[s]]

\* the step in which caller p's authenticate call starts and returns at once
ReturnsAtOnce(p) ==
  /\ Free(p) /\ top'[p] = "authenticate" /\ pc'[p] = "returned"
  /\ <<top[p], pc[p], req[p], error[p]>> # <<top'[p], pc'[p], req'[p], error'[p]>>

\* C14: an authenticate call that returns at once (username or password
\* absent) does not raise, issues no transport request and does not touch the
\* lock, and leaves credentials, security token, account info, registry and
\* refresh timestamp as they were.
C14_AuthenticateNoopFrame ==
  [][\A p \in Callers :
       ReturnsAtOnce(p) =>
         /\ error'[p] = "none"
         /\ lock' = lock
         /\ \A q \in Callers \ {p} : pc'[q] = pc[q] /\ req'[q] = req[q]
         /\ credentials' = credentials
         /\ security_token' = security_token
         /\ account_info' = account_info
         /\ devices' = devices
         /\ last_state_update' = last_state_update]_vars

\* the no-op has returned on a client that is logged in and has devices
C14_Witness ==
  \E p \in Callers :
     /\ top[p] = "authenticate" /\ pc[p] = "returned" /\ req[p].last = "none"
     /\ credentials # NoCredentials /\ security_token # None
     /\ account_info = "account" /\ devices # NoDevices
     /\ last_state_update = "recent"

\* C15: a call that ended on an attempt whose body was empty or undecodable
\* has gone through the retry budget and raised RequestError.
C15_BodylessFailureIsRequestError ==
  \A p \in Callers :
     (pc[p] = "raised" /\ req[p].last \in {"errEmpty", "undecodable"})
       => error[p] = "RequestError"

\* C16: in the step that answers a non-login attempt with 401 the call
\* either ends or goes on owning the lock, and no attempt of another caller is
\* issued: a caller waiting for the lock is admitted only after the call's
\* raise.
C16_NoInterleavingAfter401 ==
  [][\A p \in Callers :
       (Answered401(p) /\ ~req[p].login_request)
         => /\ pc'[p] = "raised" \/ (lock'.owner = p /\ InLoop(p)')
            /\ \A q \in Callers \ {p} : pc'[q] # "inflight" /\ req'[q] = req[q]
            /\ lock'.waiters = lock.waiters]_vars

\* a non-login call has ended on a 401 while another caller was waiting for
\* the lock, and the waiter has not issued its attempt
C16_Witness ==
  \E p, q \in Callers :
     /\ pc[p] = "raised" /\ req[p].last = "err401" /\ ~req[p].login_request
     /\ pc[q] = "acquire" /\ lock.waiters = <<q>> /\ lock.owner = NoCaller

\* caller p's refresh has passed the throttle test and has not ended
Refreshing(p) ==
  /\ pc[p] \in {"acquire", "inflight", "sleep"}
  /\ req[p].endpoint \in {"Accounts", "Devices", "OwnDevices"}

\* C17: a refresh that starts while an earlier refresh is still in flight is
\* a no-op: no two callers are inside the fetches of a refresh at once, one
\* of them in flight and the other waiting for the lock or in flight later.
C17_ConcurrentRefreshIsNoop ==
  \A p, q \in Callers : (Refreshing(p) /\ Refreshing(q)) => p = q

InRequest(p) == top[p] = "request" /\ pc[p] \in {"acquire", "inflight", "sleep"}

\* C18: with a transport that answers every attempt, every top-level call of
\* request returns or raises, and the attempts it causes are bounded: at most
\* 5 of its own, and no request of a nested authenticate.
C18_RequestEndsWithinBudget ==
  /\ [](\A p \in Callers :
          InRequest(p) => /\ req[p].endpoint = "Other"
                          /\ req[p].attempt + 1 <= 5)
  /\ \A p \in Callers : InRequest(p) ~> (pc[p] \in {"returned", "raised"})

\* the service has accepted a login and answered a non-login attempt of a
\* top-level request call with 401, and that call has ended
C18_Witness ==
  \E p \in Callers :
     /\ top[p] = "request" /\ pc[p] = "raised" /\ req[p].last = "err401"
     /\ credentials # NoCredentials /\ security_token # None
     /\ account_info = "account"

\* C20: with credentials cleared by a rejected login, a 401 on a non-login
\* attempt leaves credentials empty and the token unchanged, issues no Login
\* request, and the call goes on to its next attempt, ending with
\* RequestError when the 401 answers its 5th attempt.
C20_ClearedCredentialsRetryToBudget ==
  [][\A p \in Callers :
       (/\ Answered401(p) /\ ~req[p].login_request
        /\ credentials = NoCredentials
        /\ \E q \in Callers : error[q] = "InvalidCredentialsError")
         => /\ credentials' = NoCredentials
            /\ security_token' = security_token
            /\ req'[p].endpoint # "Login"
            /\ IF req[p].attempt < 4
               THEN pc'[p] = "sleep"
               ELSE pc'[p] = "raised" /\ error'[p] = "RequestError"]_vars

====
